---- MODULE Spec2Model ----
(***************************************************************************)
(* Visual-regression capture service (viz-regression).                     *)
(*                                                                         *)
(* The repository holds seven revisions of the same Express service: one   *)
(* promise-queue of concurrency 1 in front of the async function           *)
(* handleCapture(req, res).  The model keeps the revision as a state       *)
(* variable fixed by Init, so every property is checked of each revision.  *)
(* A job is modelled await by await: each action is the code that runs     *)
(* between two suspension points of one handleCapture call.                *)
(***************************************************************************)
EXTENDS Integers, Sequences, FiniteSets, TLC

(***************************************************************************)
(* Bounds of the model.                                                    *)
(***************************************************************************)
MaxReq == 2

\* the side of the large test image of the diff logic
Side10 == 10

None == "none"

(***************************************************************************)
(* The revisions.  "app_v1", "app_v2", "app_v3" are the three programs     *)
(* held one after another in src/app.js.                                   *)
(***************************************************************************)
Versions ==
  {"part_000", "part_001", "part_002", "part_003", "app_v1", "app_v2", "app_v3"}

\* revisions that read req.query.ignore
HasIgnore(v) == v \in {"part_001", "app_v3"}

\* app_v3 wraps a parsed non-array value into a one-element array
WrapsIgnore(v) == v = "app_v3"

\* page.goto inside its own try/catch: a navigation error is logged, not thrown
SoftNav(v) == v = "part_001"

\* page.evaluate(requestAnimationFrame) between goto and the locators
HasEvaluate(v) == v = "part_003"

\* the ordered locators; "wait" is page.waitForSelector (throws when the
\* element never appears), "query" is page.$ (null when it is absent)
Chain(v) ==
  CASE v \in {"part_001", "part_003"} ->
         << [sel |-> ".mtc-eyebrow", how |-> "wait"],
            [sel |-> "main", how |-> "wait"] >>
    [] v = "app_v3" ->
         << [sel |-> ".mtc-eyebrow", how |-> "wait"],
            [sel |-> ".main-content", how |-> "query"],
            [sel |-> "body", how |-> "query"] >>
    [] OTHER ->
         << [sel |-> ".mtc-eyebrow", how |-> "wait"] >>

\* the settling step: a fixed timer, a race of a selector wait against a
\* timer, or no step at all
SettleKind(v) ==
  CASE v = "part_001" -> "timer"
    [] v = "app_v3" -> "race"
    [] OTHER -> "absent"

\* browser.close() is awaited right after the screenshot
ClosesAfterShot(v) == v # "part_001"

\* the session is closed in a finally block (else in the catch block)
UsesFinally(v) == v = "part_001"

\* references are presigned with getSignedUrl (else built as strings)
SignsUrls(v) == v \notin {"app_v1", "app_v2"}

\* fields of the 'Diff complete' body
DiffFields(v) ==
  IF v = "app_v1"
    THEN {"message", "capture_url", "diff_url"}
    ELSE {"message", "capture_url", "baseline_url", "diff_url"}

\* new Queue(1, Infinity): maxPendingPromises
maxPendingPromises == 1

\* a queue that lets one more generator in than it should
MayStart_OneMore(pendingPromises) == pendingPromises < maxPendingPromises + 1

\* whether _dequeue may start another promise generator
MayStart(pendingPromises) == pendingPromises < maxPendingPromises

(***************************************************************************)
(* Timeouts, in milliseconds; 0 is puppeteer's "no timeout".  A call over  *)
(* the DevTools protocol that has no timeout of its own is cut off by      *)
(* protocolTimeout, which puppeteer sets to 180000 when launch is given    *)
(* none; launch itself defaults to 30000.                                  *)
(***************************************************************************)
\* a launch with protocolTimeout: 0
ProtocolTimeout_Disabled(v) == 0

ProtocolTimeout(v) ==
  CASE v \in {"part_001", "app_v3"} -> 180000
    [] v = "app_v1" -> 60000
    [] OTHER -> 180000

\* the timeout given to the call itself
OwnTimeout(v, p) ==
  CASE p = "launch" ->
         IF v \in {"part_002", "app_v1", "app_v2"} THEN 60000 ELSE 30000
    [] p = "goto" ->
         IF v \in {"part_001", "app_v3"} THEN 180000
         ELSE IF v = "part_003" THEN 120000 ELSE 60000
    [] p = "locate" -> IF v = "part_003" THEN 30000 ELSE 60000
    [] p = "settle" -> IF v = "app_v3" THEN 20000 ELSE 120000
    [] OTHER -> 0

\* the time after which an await on the browser ends at the latest
\* (0: never, if the browser does not answer)
AwaitTimeout(v, p) ==
  IF OwnTimeout(v, p) > 0 THEN OwnTimeout(v, p) ELSE ProtocolTimeout(v)

(***************************************************************************)
(* Requests.  req.query.url is absent (None), empty, a string that is no   *)
(* URL, or one of two well-formed URLs.  req.query.ignore is absent or a   *)
(* payload text.                                                           *)
(***************************************************************************)
Urls == {None, "", "not a url", "https://a.example/", "https://b.example/"}

WellFormed(url) == url \in {"https://a.example/", "https://b.example/"}

Payloads == {None, "[{x:0,y:0,width:1,height:1}]", "{x:0", "5"}

Requests ==
  { [url |-> None, ignore |-> None],
    [url |-> "", ignore |-> None],
    [url |-> "not a url", ignore |-> None],
    [url |-> "https://a.example/", ignore |-> None],
    [url |-> "https://a.example/", ignore |-> "[{x:0,y:0,width:1,height:1}]"],
    [url |-> "https://a.example/", ignore |-> "{x:0"],
    [url |-> "https://a.example/", ignore |-> "5"],
    [url |-> "https://b.example/", ignore |-> None] }

\* a check that only looks for undefined
Truthy_EmptyPasses(q) == q # None

\* JavaScript truthiness of a query value: undefined and "" are falsy
Truthy(q) == q # None /\ q # ""

\* JSON.parse(ignore): the parsed value, or "throws"
JSONparse(text) ==
  CASE text = "[{x:0,y:0,width:1,height:1}]" ->
         [kind |-> "array",
          items |-> << [x |-> 0, y |-> 0, width |-> 1, height |-> 1] >>]
    [] text = "5" -> [kind |-> "number", items |-> << >>]
    [] OTHER -> [kind |-> "throws", items |-> << >>]

\* the value of ignoreRegions after the parse block ("throws": the 400 reply)
ParseIgnore(v, ignore) ==
  IF ~HasIgnore(v) \/ ~Truthy(ignore)
    THEN [kind |-> "array", items |-> << >>]
    ELSE LET parsed == JSONparse(ignore)
         IN  IF parsed.kind = "throws" \/ parsed.kind = "array" THEN parsed
             ELSE IF WrapsIgnore(v)
                    \* [parsed]: one element whose x, y, width, height are
                    \* undefined, so its loops run zero times
                    THEN [kind |-> "array", items |-> << >>]
                    ELSE parsed

(***************************************************************************)
(* Keys.  md5 is taken as collision-free on the URLs of the model.         *)
(***************************************************************************)
md5(url) ==
  CASE url = "not a url" -> "5d41"
    [] url = "https://a.example/" -> "a3f0"
    [] url = "https://b.example/" -> "b71c"
    [] OTHER -> "d41d"

\* a key variable not yet assigned
NoKey == [base |-> None, file |-> None, gen |-> 0]

\* a baseline key that is the same for every URL
baselineKey_Shared(url) == [base |-> "shared", file |-> "baseline", gen |-> 0]

\* a capture key without its generation
rawKey_NoGeneration(url, now) == [base |-> md5(url), file |-> "capture", gen |-> 0]

rawKey(url, now) == [base |-> md5(url), file |-> "capture", gen |-> now]
baselineKey(url) == [base |-> md5(url), file |-> "baseline", gen |-> 0]
diffKey(url, now) == [base |-> md5(url), file |-> "diff", gen |-> now]

(***************************************************************************)
(* Images.  A pixel (its four RGBA bytes) is one colour, given in tenths   *)
(* of pixelmatch's normalised colour distance.  A PNG buffer is the tuple  *)
(* <<width, height, data>>; PNG.sync.read decodes it into a record.        *)
(***************************************************************************)
ThresholdTenths == 1

\* an unset buffer variable
NoBuf == << >>

ImgA == << 2, 2, <<0, 0, 0, 0>> >>
ImgB == << 2, 2, <<0, 10, 0, 0>> >>
ImgC == << 1, 4, <<0, 0, 0, 0>> >>
ImgD == << 1, 2, <<0, 0>> >>

\* what handle.screenshot may return
Shots == {ImgA, ImgB, ImgC, ImgD}

PNGread(buf) == [width |-> buf[1], height |-> buf[2], data |-> buf[3]]
PNGwrite(img) == << img.width, img.height, img.data >>

\* one forEach iteration: the two nested loops over a rectangle.  A typed
\* array ignores a write past its end and reads undefined (stored as 0)
\* past the end of img2.
MaskRect(img1, img2, r) ==
  [img1 EXCEPT !.data =
     [i \in 1..Len(img1.data) |->
        IF \E yy \in r.y..(r.y + r.height - 1), xx \in r.x..(r.x + r.width - 1) :
             yy * img1.width + xx = i - 1
          THEN IF i <= Len(img2.data) THEN img2.data[i] ELSE 0
          ELSE img1.data[i]]]

RECURSIVE ApplyIgnore(_, _, _)
ApplyIgnore(img1, img2, items) ==
  IF items = << >> THEN img1
  ELSE ApplyIgnore(MaskRect(img1, img2, Head(items)), img2, Tail(items))

Abs(n) == IF n < 0 THEN -n ELSE n

\* pixelmatch(img1.data, img2.data, diff.data, width, height, {threshold})
\* throws when the buffers differ in length or do not fit width*height
PixelmatchThrows(d1, d2, width, height) ==
  Len(d1) # Len(d2) \/ Len(d1) # width * height

Changed(d1, d2) == {i \in 1..Len(d1) : Abs(d1[i] - d2[i]) > ThresholdTenths}

\* the pixel at column x, row y of a width-wide image
Pix(data, width, x, y) == data[y * width + x + 1]

Max(a, b) == IF a > b THEN a ELSE b
Min(a, b) == IF a < b THEN a ELSE b

\* the up to eight pixels around (x1, y1), the image's edge cutting them off
Around(x1, y1, width, height) ==
  {n \in (Max(x1 - 1, 0)..Min(x1 + 1, width - 1))
           \X (Max(y1 - 1, 0)..Min(y1 + 1, height - 1)) : n # << x1, y1 >>}

\* 1 when (x1, y1) lies on the edge of the image
OnEdge(x1, y1, width, height) ==
  IF x1 = 0 \/ y1 = 0 \/ x1 = width - 1 \/ y1 = height - 1 THEN 1 ELSE 0

\* pixelmatch's hasManySiblings: three or more neighbours of the same colour
HasManySiblings(data, x1, y1, width, height) ==
  OnEdge(x1, y1, width, height)
    + Cardinality({n \in Around(x1, y1, width, height) :
                     Pix(data, width, n[1], n[2]) = Pix(data, width, x1, y1)}) > 2

\* the first neighbour, columns outermost, among those in set ns
FirstOf(ns, height) ==
  CHOOSE n \in ns : \A m \in ns : n[1] * height + n[2] <= m[1] * height + m[2]

\* pixelmatch's antialiased(img, x1, y1, width, height, img2): the pixel has
\* at most two neighbours of its own brightness, a darker and a brighter
\* one, and the darkest or the brightest has many siblings in both images
Antialiased(data, x1, y1, width, height, data2) ==
  LET ns == Around(x1, y1, width, height)
      delta(n) == Pix(data, width, x1, y1) - Pix(data, width, n[1], n[2])
      zeroes == OnEdge(x1, y1, width, height)
                  + Cardinality({n \in ns : delta(n) = 0})
      least == {n \in ns : delta(n) < 0 /\ \A m \in ns : delta(n) <= delta(m)}
      most == {n \in ns : delta(n) > 0 /\ \A m \in ns : delta(n) >= delta(m)}
      both(n) == /\ HasManySiblings(data, n[1], n[2], width, height)
                 /\ HasManySiblings(data2, n[1], n[2], width, height)
  IN  /\ zeroes <= 2
      /\ least # {}
      /\ most # {}
      /\ both(FirstOf(least, height)) \/ both(FirstOf(most, height))

\* the pixels pixelmatch counts: over the threshold and, as the call leaves
\* includeAA at its default, anti-aliased in neither image
Counted(d1, d2, width, height) ==
  {i \in Changed(d1, d2) :
     LET x == (i - 1) % width
         y == (i - 1) \div width
     IN  /\ ~Antialiased(d1, x, y, width, height, d2)
         /\ ~Antialiased(d2, x, y, width, height, d1)}

\* the synchronous block from PNG.sync.read to PNG.sync.write:
\* [throws, numDiff, diffBuf]; the diff image marks a counted pixel 1, an
\* anti-aliased one 2, any other 0
DiffLogic(baselineBuffer, screenshot, ignoreRegions) ==
  LET img1 == PNGread(baselineBuffer)
      img2 == PNGread(screenshot)
  IN  IF ignoreRegions.kind # "array"
        \* ignoreRegions.forEach is not a function
        THEN [throws |-> TRUE, numDiff |-> 0, diffBuf |-> NoBuf]
      ELSE LET masked == ApplyIgnore(img1, img2, ignoreRegions.items)
           IN  IF PixelmatchThrows(masked.data, img2.data, img1.width, img1.height)
                 THEN [throws |-> TRUE, numDiff |-> 0, diffBuf |-> NoBuf]
                 ELSE LET counted == Counted(masked.data, img2.data,
                                             img1.width, img1.height)
                      IN  [throws |-> FALSE,
                           numDiff |-> Cardinality(counted),
                           diffBuf |-> PNGwrite(
                             [width |-> img1.width, height |-> img1.height,
                              data |-> [i \in 1..Len(masked.data) |->
                                 IF i \in counted THEN 1
                                 ELSE IF i \in Changed(masked.data, img2.data)
                                   THEN 2 ELSE 0]])]

(***************************************************************************)
(* State.                                                                  *)
(*   version          the revision that is running                         *)
(*   reqs             the requests received so far; a request's id is its  *)
(*                    position, which is its arrival order                 *)
(*   queue            promise-queue's array of waiting generators (ids)    *)
(*   pendingPromises  promise-queue's count of running generators          *)
(*   job              per id: where its handleCapture call stands, and its *)
(*                    local variables                                      *)
(*   store            the bucket: key -> body                              *)
(*   clock            Date.now()                                           *)
(*   sent             the HTTP responses in the order they were sent       *)
(*   diffCase         one run of the diff logic on its own: the two buffers *)
(*                    and the ignore regions handed to it, and its result   *)
(***************************************************************************)
VARIABLES version, reqs, queue, pendingPromises, job, store, clock, sent,
          diffCase

vars ==
  << version, reqs, queue, pendingPromises, job, store, clock, sent, diffCase >>

Ids == 1..MaxReq

\* the awaits of handleCapture, in program order
Awaits ==
  {"import", "launch", "newPage", "goto", "evaluate", "locate", "settle",
   "shot", "close", "putRaw", "getBaseline", "putBaseline", "signBaseline",
   "putDiff", "signAll", "catch_close", "finally_close"}

Settled == {"resolved", "rejected"}

\* the locals of a call that has not started
Fresh ==
  [pc |-> "idle", browser |-> "none", els |-> {}, handle |-> None,
   screenshot |-> NoBuf, baselineBuffer |-> NoBuf,
   ignoreRegions |-> [kind |-> "array", items |-> << >>],
   now |-> 0, numDiff |-> 0, diffBuf |-> NoBuf,
   keys |-> [rawKey |-> NoKey, baselineKey |-> NoKey, diffKey |-> NoKey],
   err |-> None, ev |-> {}, wrote |-> {}]

\* the diff logic not yet run
NoResult == [throws |-> FALSE, numDiff |-> -1, diffBuf |-> NoBuf]

NoCase ==
  [baseline |-> NoBuf, capture |-> NoBuf, regions |-> << >>, result |-> NoResult]

Init ==
  /\ version \in Versions
  /\ reqs = << >>
  /\ queue = << >>
  /\ pendingPromises = 0
  /\ job = [i \in Ids |-> Fresh]
  /\ store = << >>
  /\ clock = 1
  /\ sent = << >>
  /\ diffCase = NoCase

\* s3 PutObject: the bucket after a successful write
Put(key, body) ==
  [k \in DOMAIN store \cup {key} |-> IF k = key THEN body ELSE store[k]]

\* the calls to the collaborators that a job's history keeps
Logged == {"launch", "goto", "shot", "putRaw", "getBaseline", "putBaseline", "putDiff"}

\* the job's locals once its next await has been issued
Await(j, p) == [j EXCEPT !.pc = p, !.ev = @ \cup ({p} \cap Logged)]

\* a queue that calls the generator of a failed job again
Ended_Retries(j, how) ==
  IF j.err # None
    THEN [Fresh EXCEPT !.pc = "import", !.ev = j.ev]
    ELSE [Fresh EXCEPT !.pc = how, !.browser = j.browser, !.now = j.now,
                       !.keys = j.keys, !.ev = j.ev, !.wrote = j.wrote]

\* the locals kept of a call that has ended
Ended(j, how) ==
  [Fresh EXCEPT !.pc = how, !.browser = j.browser, !.now = j.now,
                !.keys = j.keys, !.err = j.err, !.ev = j.ev, !.wrote = j.wrote]

NoReply == [status |-> 0, kind |-> None, fields |-> {}, numDiff |-> 0]

Reply400 == [status |-> 400, kind |-> "client error", fields |-> {}, numDiff |-> 0]

Reply500 == [status |-> 500, kind |-> "Capture Error", fields |-> {}, numDiff |-> 0]

ReplyBaseline ==
  [status |-> 200, kind |-> "Baseline created",
   fields |-> {"message", "baseline_url"}, numDiff |-> 0]

ReplyDiff(v, n) ==
  [status |-> 200, kind |-> "Diff complete", fields |-> DiffFields(v), numDiff |-> n]

(***************************************************************************)
(* The outcome of the code run after one await: the locals, the response   *)
(* sent (or NoReply) and how the call ended ("no": it awaits again).       *)
(***************************************************************************)
Goes(j, p) == [j |-> Await(j, p), reply |-> NoReply, end |-> "no"]

\* return after res.send / res.json: the finally block closes the browser
Returns(v, j, reply) ==
  IF UsesFinally(v) /\ j.browser # "none"
    THEN [j |-> Await(j, "finally_close"), reply |-> reply, end |-> "no"]
    ELSE [j |-> j, reply |-> reply, end |-> "resolved"]

\* a catch block that answers and forgets the browser
Throws_NoClose(v, j) == [j |-> j, reply |-> Reply500, end |-> "resolved"]

\* the locals with err bound to what was thrown: the error named by the
\* code that threw, else the await that rejected
Caught(j) == [j EXCEPT !.err = IF @ # None THEN @ ELSE j.pc]

\* a catch block that puts the caught error into its response
Throws_EchoesError(v, j) ==
  IF UsesFinally(v)
    THEN Returns(v, Caught(j), [Reply500 EXCEPT !.kind = Caught(j).err])
    ELSE IF j.browser # "none"
           THEN [j |-> Await(Caught(j), "catch_close"), reply |-> NoReply, end |-> "no"]
           ELSE [j |-> Caught(j),
                 reply |-> [Reply500 EXCEPT !.kind = Caught(j).err],
                 end |-> "resolved"]

\* a throw inside the try: the catch block, then the finally block
Throws(v, j) ==
  IF UsesFinally(v)
    THEN Returns(v, Caught(j), Reply500)
    ELSE IF j.browser # "none"
           THEN [j |-> Await(Caught(j), "catch_close"), reply |-> NoReply, end |-> "no"]
           ELSE [j |-> Caught(j), reply |-> Reply500, end |-> "resolved"]

\* a queue that chains the next generator on fulfilment only
Commit_StopsOnReject(i, r) ==
  /\ sent' = IF r.reply = NoReply THEN sent
             ELSE Append(sent, [id |-> i, reply |-> r.reply])
  /\ IF r.end = "no"
       THEN /\ job' = [job EXCEPT ![i] = r.j]
            /\ UNCHANGED << queue, pendingPromises >>
       ELSE IF queue # << >> /\ r.end = "resolved"
         THEN /\ job' = [job EXCEPT ![i] = Ended(r.j, r.end),
                                    ![Head(queue)] = Await(@, "import")]
              /\ queue' = Tail(queue)
              /\ UNCHANGED pendingPromises
         ELSE /\ job' = [job EXCEPT ![i] = Ended(r.j, r.end)]
              /\ pendingPromises' = pendingPromises - 1
              /\ UNCHANGED queue

\* promise-queue, when generator i settles: pendingPromises--, then
\* _dequeue() shifts the next generator and calls it; a call runs to its
\* first await, the import of pixelmatch
Commit(i, r) ==
  /\ sent' = IF r.reply = NoReply THEN sent
             ELSE Append(sent, [id |-> i, reply |-> r.reply])
  /\ IF r.end = "no"
       THEN /\ job' = [job EXCEPT ![i] = r.j]
            /\ UNCHANGED << queue, pendingPromises >>
       ELSE IF queue # << >> /\ MayStart(pendingPromises - 1)
         THEN /\ job' = [job EXCEPT ![i] = Ended(r.j, r.end),
                                    ![Head(queue)] = Await(@, "import")]
              /\ queue' = Tail(queue)
              /\ UNCHANGED pendingPromises
         ELSE /\ job' = [job EXCEPT ![i] = Ended(r.j, r.end)]
              /\ pendingPromises' = pendingPromises - 1
              /\ UNCHANGED queue

\* a route that checks the url itself and answers 400 at submission
Submit_ValidatesFirst(r) ==
  /\ Len(reqs) < MaxReq
  /\ r.ignore # None => HasIgnore(version)
  /\ reqs' = Append(reqs, r)
  /\ LET i == Len(reqs) + 1
     IN  IF ~Truthy(r.url)
           THEN /\ job' = [job EXCEPT ![i].pc = "resolved"]
                /\ sent' = Append(sent, [id |-> i, reply |-> Reply400])
                /\ UNCHANGED << queue, pendingPromises >>
         ELSE IF queue = << >> /\ MayStart(pendingPromises)
           THEN /\ job' = [job EXCEPT ![i] = Await(@, "import")]
                /\ pendingPromises' = pendingPromises + 1
                /\ UNCHANGED << queue, sent >>
           ELSE /\ job' = [job EXCEPT ![i].pc = "queued"]
                /\ queue' = Append(queue, i)
                /\ UNCHANGED << pendingPromises, sent >>
  /\ UNCHANGED << diffCase, version, store, clock >>

\* app.get("/capture"): queue.add(() => handleCapture(req, res)).  A revision
\* that never reads req.query.ignore is sent none.
Submit(r) ==
  /\ Len(reqs) < MaxReq
  /\ r.ignore # None => HasIgnore(version)
  /\ reqs' = Append(reqs, r)
  /\ LET i == Len(reqs) + 1
     IN  IF queue = << >> /\ MayStart(pendingPromises)
           THEN /\ job' = [job EXCEPT ![i] = Await(@, "import")]
                /\ pendingPromises' = pendingPromises + 1
                /\ UNCHANGED queue
           ELSE /\ job' = [job EXCEPT ![i].pc = "queued"]
                /\ queue' = Append(queue, i)
                /\ UNCHANGED pendingPromises
  /\ UNCHANGED << diffCase, version, store, clock, sent >>

\* const {url, ignore} = req.query; the two 400 checks; the keys; launch
Validate(i) ==
  /\ job[i].pc = "import"
  /\ LET r == reqs[i]
         parsed == ParseIgnore(version, r.ignore)
         j == [job[i] EXCEPT !.ignoreRegions = parsed, !.now = clock,
                             !.keys = [rawKey |-> rawKey(r.url, clock),
                                       baselineKey |-> baselineKey(r.url),
                                       diffKey |-> diffKey(r.url, clock)]]
     IN  IF ~Truthy(r.url) \/ parsed.kind = "throws"
           THEN Commit(i, Returns(version, job[i], Reply400))
           ELSE Commit(i, Goes(j, "launch"))
  /\ UNCHANGED << diffCase, version, reqs, store, clock >>

(***************************************************************************)
(* The browser.  What the page holds when the locators look at it is the   *)
(* environment's choice; "chart" stands for an svg or canvas inside        *)
(* .mtc-eyebrow.  A URL that does not parse leaves the page at about:blank. *)
(***************************************************************************)
PageContents ==
  { {"body"},
    {"body", "main"},
    {"body", ".main-content"},
    {"body", "main", ".mtc-eyebrow"},
    {"body", "main", ".mtc-eyebrow", "chart"} }

Blank == {"body"}

\* browser = await puppeteer.launch(...); starting a browser takes time, so
\* Date.now() has moved on when it is up
Launch(i, ok) ==
  /\ job[i].pc = "launch"
  /\ IF ok
       THEN /\ Commit(i, Goes([job[i] EXCEPT !.browser = "open"], "newPage"))
            /\ clock' = clock + 1
       ELSE /\ Commit(i, Throws(version, job[i]))
            /\ UNCHANGED clock
  /\ UNCHANGED << diffCase, version, reqs, store >>

\* browser.newPage(), page.setViewport(), page.setUserAgent(), then goto
NewPage(i, ok) ==
  /\ job[i].pc = "newPage"
  /\ IF ok THEN Commit(i, Goes(job[i], "goto"))
           ELSE Commit(i, Throws(version, job[i]))
  /\ UNCHANGED << diffCase, version, reqs, store, clock >>

\* the code after page.goto: the soft policy swallows its error
AfterGoto(v, j, ok) ==
  IF ~ok /\ ~SoftNav(v) THEN Throws(v, j)
  ELSE IF HasEvaluate(v) THEN Goes(j, "evaluate")
  ELSE Goes(j, "locate")

Goto(i, ok, els) ==
  /\ job[i].pc = "goto"
  /\ IF WellFormed(reqs[i].url) THEN els \in PageContents
                                ELSE ~ok /\ els = Blank
  /\ Commit(i, AfterGoto(version, [job[i] EXCEPT !.els = els], ok))
  /\ UNCHANGED << diffCase, version, reqs, store, clock >>

\* await page.evaluate(() => new Promise(requestAnimationFrame))
Evaluate(i, ok) ==
  /\ job[i].pc = "evaluate"
  /\ IF ok THEN Commit(i, Goes(job[i], "locate"))
           ELSE Commit(i, Throws(version, job[i]))
  /\ UNCHANGED << diffCase, version, reqs, store, clock >>

\* the locators from the k-th on: [handle, tried, error].  A waitForSelector
\* that times out throws; only the first locator stands in a try block.  A
\* page.$ that finds nothing yields null and the next locator is asked.
RECURSIVE Locators(_, _, _, _)
Locators(chain, k, els, tried) ==
  IF k > Len(chain)
    THEN [handle |-> None, tried |-> tried, error |-> "not found"]
  ELSE LET l == chain[k]
           seen == Append(tried, l.sel)
       IN  IF l.sel \in els
             THEN [handle |-> l.sel, tried |-> seen, error |-> None]
           ELSE IF l.how = "wait" /\ k > 1
             THEN [handle |-> None, tried |-> seen, error |-> "timeout"]
           ELSE IF l.how = "wait" /\ Len(chain) = 1
             THEN [handle |-> None, tried |-> seen, error |-> "timeout"]
           ELSE Locators(chain, k + 1, els, seen)

\* a chain without the check of its handle
AfterLocate_NoCheck(v, j, found) ==
  IF SettleKind(v) = "absent"
    THEN Goes([j EXCEPT !.handle = found.handle], "shot")
    ELSE Goes([j EXCEPT !.handle = found.handle], "settle")

\* the code after the locators: the settling wait, or the screenshot
AfterLocate(v, j, found) ==
  IF found.error # None THEN Throws(v, [j EXCEPT !.err = found.error])
  ELSE IF SettleKind(v) = "absent"
         THEN Goes([j EXCEPT !.handle = found.handle], "shot")
         ELSE Goes([j EXCEPT !.handle = found.handle], "settle")

Locate(i) ==
  /\ job[i].pc = "locate"
  /\ Commit(i, AfterLocate(version, job[i],
                           Locators(Chain(version), 1, job[i].els, << >>)))
  /\ UNCHANGED << diffCase, version, reqs, store, clock >>

\* the settling wait.  "timer": setTimeout resolves.  "race": the first of
\* the chart selector wait and the timer to settle decides, and the selector
\* wait rejects (20 s) before the timer resolves (120 s).
SettleOutcome(v, els) ==
  IF SettleKind(v) = "race" /\ "chart" \notin els THEN "throws" ELSE "ok"

SettleWait(i) ==
  /\ job[i].pc = "settle"
  /\ IF SettleOutcome(version, job[i].els) = "ok"
       THEN Commit(i, Goes(job[i], "shot"))
       ELSE Commit(i, Throws(version, job[i]))
  /\ UNCHANGED << diffCase, version, reqs, store, clock >>

\* the code after handle.screenshot
AfterShot(v, j) ==
  IF ClosesAfterShot(v) THEN Goes(j, "close") ELSE Goes(j, "putRaw")

Shot(i, ok, png) ==
  /\ job[i].pc = "shot"
  /\ IF ok THEN /\ png \in Shots
                /\ Commit(i, AfterShot(version, [job[i] EXCEPT !.screenshot = png]))
           ELSE /\ png = NoBuf
                /\ Commit(i, Throws(version, job[i]))
  /\ UNCHANGED << diffCase, version, reqs, store, clock >>

\* await browser.close() after the screenshot.  The call ends the session
\* whether it resolves or rejects.
CloseAfterShot(i, ok) ==
  /\ job[i].pc = "close"
  /\ LET j == [job[i] EXCEPT !.browser = "closed"]
     IN  IF ok THEN Commit(i, Goes(j, "putRaw"))
               ELSE Commit(i, Throws(version, j))
  /\ UNCHANGED << diffCase, version, reqs, store, clock >>

\* catch (err) { if (browser) await browser.close(); res.status(500)... }
\* a close that rejects here ends the call before the response is sent
CatchClose(i, ok) ==
  /\ job[i].pc = "catch_close"
  /\ LET j == [job[i] EXCEPT !.browser = "closed"]
     IN  IF ok THEN Commit(i, [j |-> j, reply |-> Reply500, end |-> "resolved"])
               ELSE Commit(i, [j |-> j, reply |-> NoReply, end |-> "rejected"])
  /\ UNCHANGED << diffCase, version, reqs, store, clock >>

\* finally { if (browser) { try { await browser.close(); } catch ... } }
FinallyClose(i, ok) ==
  /\ job[i].pc = "finally_close"
  /\ Commit(i, [j |-> [job[i] EXCEPT !.browser = "closed"],
                reply |-> NoReply, end |-> "resolved"])
  /\ ok \in BOOLEAN
  /\ UNCHANGED << diffCase, version, reqs, store, clock >>

(***************************************************************************)
(* The artifact store.  Every call may reject.                             *)
(***************************************************************************)
\* upload the raw capture, then ask for the baseline
PutRaw(i, ok) ==
  /\ job[i].pc = "putRaw"
  /\ LET key == job[i].keys.rawKey
     IN  IF ok
           THEN /\ store' = Put(key, job[i].screenshot)
                /\ Commit(i, Goes([job[i] EXCEPT !.wrote = @ \cup {key}],
                                  "getBaseline"))
           ELSE /\ UNCHANGED store
                /\ Commit(i, Throws(version, job[i]))
  /\ UNCHANGED << diffCase, version, reqs, clock >>

\* the code after the baseline was read: decode, mask, pixelmatch, encode
AfterBaseline(v, j, buf) ==
  LET d == DiffLogic(buf, j.screenshot, j.ignoreRegions)
  IN  IF d.throws
        THEN Throws(v, [j EXCEPT !.baselineBuffer = buf, !.ev = @ \cup {"diff"},
                                 !.err = "diff"])
        ELSE Goes([j EXCEPT !.baselineBuffer = buf, !.ev = @ \cup {"diff"},
                            !.numDiff = d.numDiff, !.diffBuf = d.diffBuf],
                  "putDiff")

\* try { GetObject; streamToBuffer } catch { PutObject(baselineKey) ... }:
\* the read fails when the object is absent, and may fail when it is there
GetBaseline(i, ok) ==
  /\ job[i].pc = "getBaseline"
  /\ LET key == job[i].keys.baselineKey
     IN  IF ok
           THEN /\ key \in DOMAIN store
                /\ Commit(i, AfterBaseline(version, job[i], store[key]))
           ELSE Commit(i, Goes(job[i], "putBaseline"))
  /\ UNCHANGED << diffCase, version, reqs, store, clock >>

\* a create branch that takes the screenshot again once the baseline is stored
AfterPutBaseline_Recaptures(v, j) == Goes(j, "shot")

\* a create branch without its return: it falls through to the diff
AfterPutBaseline_FallsThrough(v, j) == AfterBaseline(v, j, j.screenshot)

\* the code after the baseline was stored
AfterPutBaseline(v, j) ==
  IF SignsUrls(v) THEN Goes(j, "signBaseline")
                  ELSE Returns(v, j, ReplyBaseline)

PutBaseline(i, ok) ==
  /\ job[i].pc = "putBaseline"
  /\ LET key == job[i].keys.baselineKey
     IN  IF ok
           THEN /\ store' = Put(key, job[i].screenshot)
                /\ Commit(i, AfterPutBaseline(version,
                                [job[i] EXCEPT !.wrote = @ \cup {key}]))
           ELSE /\ UNCHANGED store
                /\ Commit(i, Throws(version, job[i]))
  /\ UNCHANGED << diffCase, version, reqs, clock >>

\* await getSignedUrl(baselineKey); return res.json({message, baseline_url})
SignBaseline(i, ok) ==
  /\ job[i].pc = "signBaseline"
  /\ IF ok THEN Commit(i, Returns(version, job[i], ReplyBaseline))
           ELSE Commit(i, Throws(version, job[i]))
  /\ UNCHANGED << diffCase, version, reqs, store, clock >>

\* the code after the diff was stored
AfterPutDiff(v, j) ==
  IF SignsUrls(v) THEN Goes(j, "signAll")
                  ELSE Returns(v, j, ReplyDiff(v, j.numDiff))

PutDiff(i, ok) ==
  /\ job[i].pc = "putDiff"
  /\ LET key == job[i].keys.diffKey
     IN  IF ok
           THEN /\ store' = Put(key, job[i].diffBuf)
                /\ Commit(i, AfterPutDiff(version,
                                [job[i] EXCEPT !.wrote = @ \cup {key}]))
           ELSE /\ UNCHANGED store
                /\ Commit(i, Throws(version, job[i]))
  /\ UNCHANGED << diffCase, version, reqs, clock >>

\* the three getSignedUrl calls, then res.json({message, ..._url})
SignAll(i, ok) ==
  /\ job[i].pc = "signAll"
  /\ IF ok THEN Commit(i, Returns(version, job[i],
                                  ReplyDiff(version, job[i].numDiff)))
           ELSE Commit(i, Throws(version, job[i]))
  /\ UNCHANGED << diffCase, version, reqs, store, clock >>

Next ==
  \/ \E r \in Requests : Submit(r)
  \/ \E i \in Ids : Validate(i)
  \/ \E i \in Ids, ok \in BOOLEAN : Launch(i, ok)
  \/ \E i \in Ids, ok \in BOOLEAN : NewPage(i, ok)
  \/ \E i \in Ids, ok \in BOOLEAN, els \in PageContents \cup {Blank} : Goto(i, ok, els)
  \/ \E i \in Ids, ok \in BOOLEAN : Evaluate(i, ok)
  \/ \E i \in Ids : Locate(i)
  \/ \E i \in Ids : SettleWait(i)
  \/ \E i \in Ids, ok \in BOOLEAN, png \in Shots \cup {NoBuf} : Shot(i, ok, png)
  \/ \E i \in Ids, ok \in BOOLEAN : CloseAfterShot(i, ok)
  \/ \E i \in Ids, ok \in BOOLEAN : PutRaw(i, ok)
  \/ \E i \in Ids, ok \in BOOLEAN : GetBaseline(i, ok)
  \/ \E i \in Ids, ok \in BOOLEAN : PutBaseline(i, ok)
  \/ \E i \in Ids, ok \in BOOLEAN : SignBaseline(i, ok)
  \/ \E i \in Ids, ok \in BOOLEAN : PutDiff(i, ok)
  \/ \E i \in Ids, ok \in BOOLEAN : SignAll(i, ok)
  \/ \E i \in Ids, ok \in BOOLEAN : CatchClose(i, ok)
  \/ \E i \in Ids, ok \in BOOLEAN : FinallyClose(i, ok)

Spec == Init /\ [][Next]_vars

(***************************************************************************)
(* Progress.  An await on the browser ends, with its result or with a      *)
(* timeout error, when some timeout bounds it; the import and the calls to *)
(* the artifact store end.  An await on the browser that nothing bounds    *)
(* may stay pending for ever.                                              *)
(***************************************************************************)
BrowserAwaits ==
  {"launch", "newPage", "goto", "evaluate", "locate", "settle", "shot",
   "close", "catch_close", "finally_close"}

Ends(v, p) == p \in BrowserAwaits => AwaitTimeout(v, p) > 0

\* the pending await of job i ends and the job runs on to its next await
JobStep(i) ==
  \/ Validate(i)
  \/ Locate(i)
  \/ SettleWait(i)
  \/ \E ok \in BOOLEAN :
       \/ Launch(i, ok) \/ NewPage(i, ok) \/ Evaluate(i, ok)
       \/ CloseAfterShot(i, ok) \/ CatchClose(i, ok) \/ FinallyClose(i, ok)
       \/ PutRaw(i, ok) \/ GetBaseline(i, ok) \/ PutBaseline(i, ok)
       \/ SignBaseline(i, ok) \/ PutDiff(i, ok) \/ SignAll(i, ok)
       \/ \E els \in PageContents \cup {Blank} : Goto(i, ok, els)
       \/ \E png \in Shots \cup {NoBuf} : Shot(i, ok, png)

Step == \E i \in Ids : Ends(version, job[i].pc) /\ JobStep(i)

LiveSpec == Spec /\ WF_vars(Step)

(***************************************************************************)
(* The diff logic on its own: the block from PNG.sync.read to              *)
(* PNG.sync.write applied once to a stored baseline, a capture of the same *)
(* size and a parsed list of ignore regions.                               *)
(***************************************************************************)
Colours == {0, 1, 5, 10}

\* a solid 3x3 image, and one with a soft step around its centre pixel
Solid3 == << 3, 3, << 0, 0, 0,  0, 0, 0,  0, 0, 0 >> >>
Stair3 == << 3, 3, << 0, 0, 0,  0, 5, 10,  0, 10, 10 >> >>

\* a 10x10 solid block, and the same with a contrasting 2x2 sub-block
Solid10 == << Side10, Side10, [i \in 1..(Side10 * Side10) |-> 0] >>
Block10 ==
  << Side10, Side10,
     [i \in 1..(Side10 * Side10) |->
        IF (i - 1) % Side10 \in {4, 5} /\ (i - 1) \div Side10 \in {4, 5}
          THEN 10 ELSE 0] >>

\* the image with up to two of its pixels repainted
Repaints(buf) ==
  { << buf[1], buf[2],
       [k \in 1..Len(buf[3]) |->
          IF k = i THEN c ELSE IF k = m THEN d ELSE buf[3][k]] >> :
      i \in 1..Len(buf[3]), m \in 1..Len(buf[3]), c \in Colours, d \in Colours }

Rect(x, y, w, h) == [x |-> x, y |-> y, width |-> w, height |-> h]

RegionLists ==
  { << >>,
    << Rect(1, 1, 1, 1) >>,
    << Rect(0, 0, 2, 2) >>,
    << Rect(0, 0, 3, 3) >>,
    << Rect(0, 0, 1, 3), Rect(1, 0, 2, 2) >>,
    << Rect(2, 0, 2, 1) >>,
    << Rect(0, 2, 1, 2) >>,
    << Rect(4, 4, 2, 2) >> }

\* the captures compared with a baseline: repaints of a small one, the
\* block scenario for the large one
CapturesOf(b) == IF b[1] = Side10 THEN {Solid10, Block10} ELSE Repaints(b)

DiffCases ==
  UNION { { [baseline |-> b, capture |-> c, regions |-> rs, result |-> NoResult] :
              c \in CapturesOf(b), rs \in RegionLists } :
          b \in {Solid3, Stair3, Solid10} }

DiffInit ==
  /\ version \in {v \in Versions : HasIgnore(v)}
  /\ reqs = << >>
  /\ queue = << >>
  /\ pendingPromises = 0
  /\ job = [i \in Ids |-> Fresh]
  /\ store = << >>
  /\ clock = 1
  /\ sent = << >>
  /\ diffCase \in DiffCases

\* img1, img2 = PNG.sync.read(...); ignoreRegions.forEach(...); pixelmatch
Diff ==
  /\ diffCase.result = NoResult
  /\ diffCase.baseline # NoBuf
  /\ diffCase' =
       [diffCase EXCEPT !.result =
          DiffLogic(diffCase.baseline, diffCase.capture,
                    [kind |-> "array", items |-> diffCase.regions])]
  /\ UNCHANGED << version, reqs, queue, pendingPromises, job, store, clock, sent >>

DiffNext == Diff

DiffSpec == DiffInit /\ [][DiffNext]_vars

(***************************************************************************)
(* Vocabulary of the properties.                                           *)
(***************************************************************************)
\* handleCapture(i) has been called and its promise has not settled
Active(i) == job[i].pc \in Awaits

\* handleCapture(i) has been called
Started(i) == job[i].pc \notin {"idle", "queued"}

\* the positions of sent at which request i was answered
Answers(i) == {p \in 1..Len(sent) : sent[p].id = i}

Answered(i) == Answers(i) # {}

\* the response of a request that was answered once
ReplyOf(i) == sent[CHOOSE p \in Answers(i) : TRUE].reply

\* C1: at most one job is active at a time: a call of handleCapture is not
\* started before the promise of every request that arrived earlier has
\* settled, so no two calls are ever between their start and their end and
\* no two hold an open browser session.
C1_OneJobActive ==
  /\ \A i, k \in Ids : i < k /\ Started(k) => job[i].pc \in Settled
  /\ Cardinality({i \in Ids : Active(i)}) <= 1
  /\ Cardinality({i \in Ids : Active(i)}) = pendingPromises

\* a request waits in the queue while an earlier job holds its browser
C1_Witness ==
  /\ job[1].browser = "open" /\ job[1].pc = "shot"
  /\ job[2].pc = "queued" /\ queue = << 2 >>

\* C2: responses leave in arrival order: when a request is answered, every
\* request that arrived before it has been answered already.
C2_FifoResponses ==
  \A p \in 1..Len(sent) :
    \A i \in 1..(sent[p].id - 1) : \E q \in 1..(p - 1) : sent[q].id = i

\* C3: a stored baseline is never written again: whatever a step does, an
\* object stored under baseline.png keeps its bytes.
C3_BaselineImmutable ==
  [][\A k \in DOMAIN store : k.file = "baseline" => store'[k] = store[k]]_vars

\* the baseline of request i's URL was stored by job k
Established(k, i) ==
  /\ reqs[k].url = reqs[i].url
  /\ baselineKey(reqs[k].url) \in job[k].wrote

\* the image job i captured, once it has uploaded it
Captured(i) == store[rawKey(reqs[i].url, job[i].now)]

\* C4: of the jobs that answer with success, the first for a URL answers
\* 'Baseline created', and every later one whose capture equals the capture
\* that established the baseline answers 'Diff complete' with 0 pixels.
C4_FirstBaselineThenZeroDiff ==
  \A i \in 1..Len(reqs) :
    Answered(i) /\ ReplyOf(i).status = 200 =>
      LET first == {k \in 1..(i - 1) : Established(k, i)}
      IN  IF first = {}
            THEN ReplyOf(i).kind = "Baseline created"
            ELSE \A k \in first :
                   (\A m \in first : k <= m) /\ Captured(i) = Captured(k)
                     => /\ ReplyOf(i).kind = "Diff complete"
                        /\ ReplyOf(i).numDiff = 0

\* C5: a job that stored the baseline runs no diff, stores no diff object,
\* and answers, if it answers with success, with a message and the baseline
\* reference alone.
C5_BaselineJobHasNoDiff ==
  \A i \in 1..Len(reqs) :
    baselineKey(reqs[i].url) \in job[i].wrote =>
      /\ "diff" \notin job[i].ev
      /\ "putDiff" \notin job[i].ev
      /\ diffKey(reqs[i].url, job[i].now) \notin job[i].wrote
      /\ job[i].diffBuf = NoBuf
      /\ Answered(i) =>
           /\ ReplyOf(i).kind # "Diff complete"
           /\ ReplyOf(i).fields \subseteq {"message", "baseline_url"}
           /\ ReplyOf(i).status = 200 =>
                ReplyOf(i).fields = {"message", "baseline_url"}

\* a job has stored the baseline and answered 'Baseline created'
C5_Witness ==
  /\ Len(reqs) >= 1
  /\ baselineKey(reqs[1].url) \in job[1].wrote
  /\ Answered(1) /\ ReplyOf(1).kind = "Baseline created"
  /\ job[1].pc = "resolved"

\* the calls a job made to the artifact store
StoreCalls(i) ==
  job[i].ev \cap {"putRaw", "getBaseline", "putBaseline", "putDiff"}

\* what a rejected request looks like: a 400, no browser, no store call
Rejected400(i) ==
  /\ "launch" \notin job[i].ev
  /\ job[i].browser = "none"
  /\ StoreCalls(i) = {} /\ job[i].wrote = {}
  /\ job[i].pc \in {"queued", "import", "resolved"}
  /\ job[i].pc = "resolved" =>
       Cardinality(Answers(i)) = 1 /\ ReplyOf(i).status = 400

C10_DimensionMismatchFails ==
  \A i \in Ids :
    /\ job[i].baselineBuffer # NoBuf
    /\ \/ PNGread(job[i].baselineBuffer).width # PNGread(job[i].screenshot).width
       \/ PNGread(job[i].baselineBuffer).height # PNGread(job[i].screenshot).height
    => /\ job[i].pc \notin {"putDiff", "signAll"}
       /\ job[i].diffBuf = NoBuf

\* job i ended without success: a 500, or no response at all
Failed(i) ==
  /\ job[i].pc \in Settled
  /\ ~Answered(i) \/ ReplyOf(i).status = 500

\* C8 as stated, in the case of two requests for one URL: the request behind
\* a failed job gets the outcome it would get had that job not failed.  A
\* job that finds no baseline and does not fail stores one, so the request
\* behind it would not answer 'Baseline created'.
C8_OutcomeAsIfNotFailed ==
  \A i, k \in 1..Len(reqs) :
    /\ i < k /\ reqs[i].url = reqs[k].url
    /\ Failed(i) /\ "launch" \in job[i].ev
    /\ \A m \in 1..i : ~Established(m, i)
    /\ Answered(k)
    => ReplyOf(k).kind # "Baseline created"

\* C8 amended: a failed job, rejected or resolved, never leaves the queue
\* standing: every request received is queued or started, a waiting request
\* always has a running job ahead of it, and the queue holds the waiting
\* requests in arrival order.
C8_QueueSurvivesFailure ==
  /\ \A i \in 1..Len(reqs) : job[i].pc # "idle"
  /\ \A i \in Ids : job[i].pc = "queued" <=> \E p \in 1..Len(queue) : queue[p] = i
  /\ \A p, q \in 1..Len(queue) : p < q => queue[p] < queue[q]
  /\ queue # << >> => \E i \in 1..(Head(queue) - 1) : Active(i)
  /\ \A i \in Ids : Failed(i) => \A k \in 1..(i - 1) : job[k].pc \in Settled

\* the error handling of job 1 threw, and request 2 behind it was served
C8_Witness ==
  /\ job[1].pc = "rejected" /\ ~Answered(1)
  /\ Answered(2) /\ ReplyOf(2).status = 200
  /\ job[2].pc = "resolved"

Differing(b, c) == {i \in 1..Len(b[3]) : b[3][i] # c[3][i]}

\* the regions together cover position i of a width-wide image
Covered(regions, width, i) ==
  \E k \in 1..Len(regions) :
    /\ (i - 1) % width \in regions[k].x..(regions[k].x + regions[k].width - 1)
    /\ (i - 1) \div width \in regions[k].y..(regions[k].y + regions[k].height - 1)

\* the diff logic has run on two buffers of equal size
DiffRan == diffCase.result # NoResult /\ ~diffCase.result.throws

\* the masking law: when the ignore regions cover every pixel at which
\* baseline and capture differ, the reported count is 0.
MaskingLaw ==
  DiffRan /\ (\A i \in Differing(diffCase.baseline, diffCase.capture) :
                Covered(diffCase.regions, diffCase.baseline[1], i))
    => diffCase.result.numDiff = 0

\* the 10x10 scenario: 4 without regions, 0 with the block masked
BlockScenario ==
  DiffRan /\ diffCase.baseline = Solid10 /\ diffCase.capture = Block10
    => /\ diffCase.regions = << >> => diffCase.result.numDiff = 4
       /\ diffCase.regions = << Rect(4, 4, 2, 2) >> => diffCase.result.numDiff = 0

\* C11: for equal-sized baseline and capture, regions that cover every
\* differing pixel give a count of 0, and with no ignore regions the count
\* is the number of pixels whose colours differ by more than the threshold
\* (4 for a 2x2 contrasting block in a 10x10 solid image).
C11_MaskingAndCount ==
  /\ MaskingLaw
  /\ BlockScenario
  /\ DiffRan /\ diffCase.regions = << >>
       => diffCase.result.numDiff
            = Cardinality(Changed(diffCase.baseline[3], diffCase.capture[3]))

(***************************************************************************)
(* C12 - C14.  Navigation and the locator chain.                           *)
(***************************************************************************)
\* the selectors of the chain, in order
Selectors(v) == [k \in 1..Len(Chain(v)) |-> Chain(v)[k].sel]

\* the positions of the chain whose selector has an element in the page
Hits(v, els) == {k \in 1..Len(Chain(v)) : Selectors(v)[k] \in els}

\* the page of job i lacks the primary element and holds the secondary one
FallsBack(i) ==
  /\ Len(Chain(version)) >= 2
  /\ job[i].els # {}
  /\ Selectors(version)[1] \notin job[i].els
  /\ Selectors(version)[2] \in job[i].els

\* the awaits between the locators and the artifact store
Capturing == {"settle", "shot", "close", "putRaw"}

\* C12: when the page has no element for .mtc-eyebrow but has one for the
\* secondary selector, the job does not fail at the locators or at the
\* settling wait: the handle is the secondary element and the job goes on to
\* the screenshot.
C12_LocatorFallback ==
  [][\A i \in Ids :
       FallsBack(i) /\ job'[i] # job[i] =>
         /\ job[i].pc = "locate" =>
              /\ job'[i].handle = Selectors(version)[2]
              /\ job'[i].pc \in Capturing
         /\ job[i].pc = "settle" => job'[i].pc \in Capturing]_vars

\* C13: the locators are asked in their order and the handle is the element
\* of the first one that matches, no later one being asked; the job fails at
\* the locators if and only if none matches, and then it takes no screenshot
\* and writes nothing to the store.
C13_FirstHitOrFail ==
  /\ [][\A i \in Ids :
          job[i].pc = "locate" /\ job'[i] # job[i] =>
            LET hits == Hits(version, job[i].els)
                found == Locators(Chain(version), 1, job[i].els, << >>)
            IN  IF hits = {}
                  THEN /\ job'[i].err \in {"not found", "timeout"}
                       /\ job'[i].handle = None
                       /\ job'[i].pc \notin Capturing
                       /\ store' = store
                  ELSE /\ \A k \in hits : (\A m \in hits : k <= m) =>
                            /\ job'[i].handle = Selectors(version)[k]
                            /\ found.tried = SubSeq(Selectors(version), 1, k)
                       /\ job'[i].err = None
                       /\ job'[i].pc \in Capturing]_vars
  /\ [](\A i \in Ids :
          job[i].err \in {"not found", "timeout"} =>
            "shot" \notin job[i].ev /\ job[i].wrote = {})

\* a job has failed at the locators of a chain with a fallback
C13_Witness ==
  \E i \in Ids :
    /\ Len(Chain(version)) >= 2
    /\ job[i].pc \in Settled
    /\ job[i].err \in {"not found", "timeout"}

\* C14: when page.goto fails the job is not aborted: it goes on to the
\* locator chain.
C14_NavigationProceeds ==
  [][\A i \in Ids :
       job[i].pc = "goto" /\ job'[i] # job[i] =>
         job'[i].pc \in {"evaluate", "locate"}]_vars

(***************************************************************************)
(* C15 - C19.  Keys and artifacts.                                         *)
(***************************************************************************)
\* job i has derived its keys
Derived(i) == job[i].now > 0

\* a PutObject of job i was issued and did not store its object
WriteFailed(i) ==
  \/ "putRaw" \in job[i].ev /\ job[i].keys.rawKey \notin job[i].wrote
  \/ "putBaseline" \in job[i].ev /\ job[i].keys.baselineKey \notin job[i].wrote
  \/ "putDiff" \in job[i].ev /\ job[i].keys.diffKey \notin job[i].wrote

\* C15: a job one of whose artifact writes failed ends with the server
\* error and leaves none of its artifacts in the store.
C15_NoPartialArtifacts ==
  \A i \in Ids :
    job[i].pc \in Settled /\ WriteFailed(i) =>
      /\ Answered(i) => ReplyOf(i).status = 500
      /\ job[i].wrote = {}
      /\ job[i].keys.rawKey \notin DOMAIN store

\* C16: the rawKeys of two distinct jobs differ and so do their diffKeys,
\* and no capture or diff object is written by two jobs.
C16_KeysUniquePerJob ==
  \A i, k \in Ids :
    i # k /\ Derived(i) /\ Derived(k) =>
      /\ job[i].keys.rawKey # job[k].keys.rawKey
      /\ job[i].keys.diffKey # job[k].keys.diffKey
      /\ \A key \in job[i].wrote \cap job[k].wrote : key.file = "baseline"

\* C17: two jobs have the same baselineKey exactly when their URLs are the
\* same; every key of a job lies under the identity of its URL, a job writes
\* only at its own keys, and the baseline it reads is the object at its own
\* baselineKey.
C17_BaselineKeyPerUrl ==
  /\ \A i, k \in Ids :
       Derived(i) /\ Derived(k) =>
         (reqs[i].url = reqs[k].url
            <=> job[i].keys.baselineKey = job[k].keys.baselineKey)
  /\ \A i \in Ids :
       Derived(i) =>
         /\ \A f \in {"rawKey", "baselineKey", "diffKey"} :
              job[i].keys[f].base = md5(reqs[i].url)
         /\ job[i].wrote \subseteq
              {job[i].keys.rawKey, job[i].keys.baselineKey, job[i].keys.diffKey}
         /\ job[i].baselineBuffer # NoBuf =>
              job[i].baselineBuffer = store[job[i].keys.baselineKey]
  /\ \A key \in DOMAIN store :
       \E i \in Ids : key \in job[i].wrote /\ key.base = md5(reqs[i].url)

\* two baselines are stored, one for each of two URLs
C17_Witness ==
  \E i, k \in Ids :
    /\ Derived(i) /\ Derived(k)
    /\ reqs[i].url # reqs[k].url
    /\ job[i].keys.baselineKey \in job[i].wrote
    /\ job[k].keys.baselineKey \in job[k].wrote

\* C18 as stated: two derivations for one URL give the same three keys.
C18_KeysPure ==
  \A i, k \in Ids :
    Derived(i) /\ Derived(k) /\ reqs[i].url = reqs[k].url =>
      job[i].keys = job[k].keys

\* C18: two derivations for one URL give the same identity and the same
\* baselineKey; their rawKeys are the same exactly when Date.now() was the
\* same at both, and so are their diffKeys.
C18_KeysPureUpToGeneration ==
  \A i, k \in Ids :
    Derived(i) /\ Derived(k) /\ reqs[i].url = reqs[k].url =>
      /\ job[i].keys.baselineKey = job[k].keys.baselineKey
      /\ job[i].keys.rawKey.base = job[k].keys.rawKey.base
      /\ job[i].now = job[k].now <=> job[i].keys.rawKey = job[k].keys.rawKey
      /\ job[i].now = job[k].now <=> job[i].keys.diffKey = job[k].keys.diffKey

\* two jobs for one URL derived their keys at different times
C18_Witness ==
  \E i, k \in Ids :
    /\ Derived(i) /\ Derived(k)
    /\ reqs[i].url = reqs[k].url
    /\ job[i].now # job[k].now

\* C19: a 'Diff complete' response carries the count and the references to
\* the capture, the baseline and the diff, and the store holds an object at
\* each of the three keys of its job.
C19_DiffReplyComplete ==
  \A p \in 1..Len(sent) :
    sent[p].reply.kind = "Diff complete" =>
      /\ {"message", "capture_url", "baseline_url", "diff_url"}
           \subseteq sent[p].reply.fields
      /\ {job[sent[p].id].keys.rawKey, job[sent[p].id].keys.baselineKey,
          job[sent[p].id].keys.diffKey} \subseteq DOMAIN store

C21_NoRetry ==
  [][\A i \in Ids :
       /\ job[i].pc \in Settled =>
            /\ job'[i].pc = job[i].pc
            /\ \A q \in 1..Len(queue') : queue'[q] # i
       /\ job'[i].pc = "import" /\ job[i].pc # "import" =>
            job[i].pc \in {"idle", "queued"}
       /\ job'[i].pc = "launch" /\ job[i].pc # "launch" =>
            "launch" \notin job[i].ev
       /\ job'[i].pc = "goto" /\ job[i].pc # "goto" =>
            "goto" \notin job[i].ev]_vars

\* a job failed at its navigation and the request behind it has ended too
C21_Witness ==
  /\ job[1].pc \in Settled
  /\ job[1].err = "goto"
  /\ job[2].pc \in Settled

(***************************************************************************)
(* C22.  The frame of the masking.                                         *)
(***************************************************************************)
\* C22: masking changes only pixels inside the listed rectangles: every
\* pixel of the working baseline that lies outside all of them keeps the
\* value it had in the stored baseline, also when a rectangle reaches past
\* the right or the bottom edge of the image.
C22_MaskingFrame ==
  DiffRan =>
    LET img1 == PNGread(diffCase.baseline)
        masked == ApplyIgnore(img1, PNGread(diffCase.capture), diffCase.regions)
    IN  \A i \in 1..Len(img1.data) :
          ~Covered(diffCase.regions, img1.width, i) =>
            masked.data[i] = img1.data[i]

(***************************************************************************)
(* C23, C24.  The settling wait; the ignore payload.                       *)
(***************************************************************************)
\* C23: the settling wait always ends in the final capture: it never moves
\* the job to its failure, whether or not the chart content appears.
C23_SettleNeverFails ==
  [][\A i \in Ids :
       job[i].pc = "settle" /\ job'[i] # job[i] => job'[i].pc = "shot"]_vars

\* an ignore payload that is given and is not the encoding of a list
Malformed(text) == Truthy(text) /\ JSONparse(text).kind # "array"

\* C24: a request whose ignore payload is not a well-formed list of
\* rectangles is answered with a client error before any browser is
\* launched: it never gets a server error and never reaches the diff stage.
C24_MalformedIgnoreRejected ==
  \A i \in 1..Len(reqs) :
    Truthy(reqs[i].url) /\ Malformed(reqs[i].ignore) =>
      /\ "launch" \notin job[i].ev
      /\ "diff" \notin job[i].ev
      /\ Answered(i) => ReplyOf(i).status = 400

(***************************************************************************)
(* C25.  Failures of the render acquisition.                               *)
(***************************************************************************)
\* what is caught when the launch, the page, the navigation, the rendering
\* frame, the locators, the settling wait or the screenshot throws
AcquirerErrors ==
  {"launch", "newPage", "goto", "evaluate", "not found", "timeout", "settle",
   "shot"}

\* C25: a job whose render acquisition failed has written no object to the
\* store, and it ends failed.
C25_AcquirerFailureLeavesStore ==
  \A i \in Ids :
    job[i].err \in AcquirerErrors =>
      /\ job[i].wrote = {}
      /\ job[i].ev \cap {"putRaw", "putBaseline", "putDiff"} = {}
      /\ job[i].pc \in Settled => Failed(i)

\* a job whose screenshot threw has ended, behind a job that stored a baseline
C25_Witness ==
  \E i, k \in Ids :
    /\ job[i].pc \in Settled /\ job[i].err = "shot"
    /\ job[k].keys.baselineKey \in job[k].wrote

(***************************************************************************)
(* C26, C27.  Responses and the place of the validation.                   *)
(***************************************************************************)
\* C26: every request received is in the queue or has been started, no
\* request is answered twice, and a request whose call has ended was
\* answered exactly once.
C26_ExactlyOneResponse ==
  /\ \A i \in 1..Len(reqs) : job[i].pc # "idle"
  /\ \A i \in Ids : Cardinality(Answers(i)) <= 1
  /\ \A i \in Ids : job[i].pc \in Settled => Cardinality(Answers(i)) = 1

\* C27: a 400 is sent only from inside the request's own job: when it is
\* sent every request that arrived earlier has ended, and while a request is
\* being validated no other job is running.
C27_ValidationInsideJob ==
  /\ \A p \in 1..Len(sent) :
       sent[p].reply.status = 400 =>
         /\ Started(sent[p].id)
         /\ \A k \in Ids : k < sent[p].id => job[k].pc \in Settled
  /\ \A i \in Ids :
       job[i].pc = "import" => \A k \in Ids \ {i} : ~Active(k)
  /\ \A i \in 1..Len(reqs) :
       job[i].pc = "queued" => ~Answered(i)

\* the second request, without a url, got its 400 after the first job had
\* launched its browser and ended
C27_Witness ==
  /\ Len(reqs) = 2
  /\ ~Truthy(reqs[2].url)
  /\ "launch" \in job[1].ev
  /\ Answered(2) /\ ReplyOf(2).status = 400

====
